---------------------------- MODULE Spec2Model ----------------------------
(***************************************************************************)
(* A model of the bencode decoder: the streaming structural decoder        *)
(* (decode.go: reader.decode, decodeString, decodeInt, decodeList,         *)
(* decodeDict), the reflective coercion engine (unmarshal.go: unmarshal)   *)
(* and the driver (bencode.go: Decoder.Decode).                            *)
(*                                                                         *)
(* Representation.                                                         *)
(*   A byte is a one-character string; a byte string is a sequence of      *)
(*   bytes.                                                                *)
(*   A Go int64/uint64 is kept in sign-magnitude form [neg, mag], mag a    *)
(*   decimal digit sequence without leading zeros, so that the whole       *)
(*   64-bit range and the values beyond it can be told apart.              *)
(*   Go values:   string            [str  |-> byte string]                 *)
(*                integer           [neg  |-> BOOLEAN, mag |-> digits]     *)
(*                slice             [list |-> sequence of values]          *)
(*                map               [dict |-> function key -> value]       *)
(*                struct            [fields |-> sequence of values]        *)
(*                non-nil pointer   [ptr  |-> pointed-to value]            *)
(*                non-nil interface [type |-> dynamic type, val |-> value] *)
(*                bool              [bool |-> BOOLEAN]                     *)
(*                nil               [nil  |-> TRUE]                        *)
(*   A decoded value (rawData) is a tree of the first four; the elements   *)
(*   of its lists and maps are kept as the values themselves.              *)
(***************************************************************************)
EXTENDS Integers, Sequences, FiniteSets, TLC

VARIABLES
    data,    \* the bytes of the io.Reader handed to NewDecoder
    pos,     \* the read cursor of Decoder.r (number of bytes consumed)
    dst,     \* the caller's destination variable, [type, val]; Decode gets &dst
    err,     \* what the last Decode call returned (or the panic it raised)
    raw,     \* rawData of the last Decode call (Nil when decode() failed)
    from,    \* the read cursor when the last Decode call started
    pre,     \* the destination's value when the last Decode call started
    ncalls   \* number of Decode calls that reached d.r.decode()

vars == <<data, pos, dst, err, raw, from, pre, ncalls>>

Nil == [nil |-> TRUE]

-----------------------------------------------------------------------------
(* Errors: the message of the outermost error value.  ErrEOF is the bare   *)
(* io.EOF sentinel; an error that wraps io.EOF is a different value.       *)

ErrNil == "nil"
ErrEOF == "EOF"
ErrNone == "no call yet"
ErrInvalidType == "bencode: invalid or unsupported type character"
ErrStringEOF == "bencode: invalid string format, unexpected EOF"
ErrStringLength == "bencode: invalid string length"
ErrStringContents == "bencode: failed to read string contents"
ErrIntStart == "bencode: expected 'i' at start of integer"
ErrIntNoEnd == "bencode: invalid integer format, could not find 'e'"
ErrIntValue == "bencode: invalid integer value"
ErrListStart == "bencode: expected 'l' at start of list"
ErrDictStart == "bencode: expected 'd' at start of dictionary"
ErrDictKey == "bencode: dictionary key must be a string"
ErrMismatch == "bencode: cannot unmarshal into Go value of type"
ErrOverflow == "bencode: value overflows Go value of type"
ErrNegative == "bencode: cannot unmarshal negative value into unsigned Go type"
ErrUnsupported == "bencode: unsupported type for unmarshaling"
ErrInvalidUnmarshal == "bencode: Unmarshal(non-pointer or nil)"
PanicMakeslice == "panic: runtime error: makeslice: len out of range"

-----------------------------------------------------------------------------
(* Decimal digits and sign-magnitude integers.                             *)

Digits == {"0", "1", "2", "3", "4", "5", "6", "7", "8", "9"}

DigitVal(b) ==
    CASE b = "0" -> 0 [] b = "1" -> 1 [] b = "2" -> 2 [] b = "3" -> 3
      [] b = "4" -> 4 [] b = "5" -> 5 [] b = "6" -> 6 [] b = "7" -> 7
      [] b = "8" -> 8 [] b = "9" -> 9

DigitChar(n) == <<"0", "1", "2", "3", "4", "5", "6", "7", "8", "9">>[n + 1]

RECURSIVE StripZeros(_)
StripZeros(ds) ==
    IF Len(ds) > 1 /\ ds[1] = "0" THEN StripZeros(Tail(ds)) ELSE ds

\* a < b for two magnitudes without leading zeros
RECURSIVE LexLess(_, _)
LexLess(a, b) ==
    IF a = <<>> THEN FALSE
    ELSE IF a[1] # b[1] THEN DigitVal(a[1]) < DigitVal(b[1])
    ELSE LexLess(Tail(a), Tail(b))

MagLess(a, b) ==
    \/ Len(a) < Len(b)
    \/ Len(a) = Len(b) /\ LexLess(a, b)

\* the sign-magnitude form of a small integer
RECURSIVE NatDigits(_)
NatDigits(n) ==
    IF n < 10 THEN <<DigitChar(n)>>
    ELSE Append(NatDigits(n \div 10), DigitChar(n % 10))

FromInt(n) ==
    [neg |-> n < 0, mag |-> NatDigits(IF n < 0 THEN 0 - n ELSE n)]

\* mag modulo m, for a modulus small enough that 10 * m is representable
RECURSIVE MagMod(_, _, _)
MagMod(ds, m, acc) ==
    IF ds = <<>> THEN acc
    ELSE MagMod(Tail(ds), m, (acc * 10 + DigitVal(ds[1])) % m)

\* the value of a magnitude of at most 9 digits
MagNat(ds) == MagMod(ds, 1000000000, 0)

RECURSIVE Pow2(_)
Pow2(w) == IF w = 0 THEN 1 ELSE 2 * Pow2(w - 1)

\* 2^63, and the largest slice the Go runtime allocates on a 64-bit
\* platform (maxAlloc = 2^48 bytes), as magnitudes
Mag2p63 == <<"9","2","2","3","3","7","2","0","3","6","8","5","4","7","7","5","8","0","8">>
MagMaxAlloc == <<"2","8","1","4","7","4","9","7","6","7","1","0","6","5","6">>


\* strconv.ParseInt(s, 10, 64): an optional '+' or '-', then one or more
\* decimal digits, the value within [-2^63, 2^63 - 1]
ParseInt(s) ==
    IF s = <<>> THEN [ok |-> FALSE, val |-> Nil]
    ELSE LET neg  == s[1] = "-"
             body == IF s[1] \in {"+", "-"} THEN Tail(s) ELSE s
         IN  IF body = <<>> \/ \E i \in 1..Len(body) : body[i] \notin Digits
             THEN [ok |-> FALSE, val |-> Nil]
             ELSE LET mag == StripZeros(body)
                  IN  IF (neg /\ MagLess(Mag2p63, mag)) \/ (~neg /\ ~MagLess(mag, Mag2p63))
                      THEN [ok |-> FALSE, val |-> Nil]
                      ELSE [ok  |-> TRUE,
                            val |-> [neg |-> neg /\ mag # <<"0">>, mag |-> mag]]

-----------------------------------------------------------------------------
(* The buffered reader over an in-memory stream.  Every operator takes the *)
(* cursor p and returns the new cursor with its result.                    *)

\* bufio.Reader.ReadByte
ReadByte(p) ==
    IF p < Len(data) THEN [b |-> data[p + 1], err |-> ErrNil, pos |-> p + 1]
    ELSE [b |-> "", err |-> ErrEOF, pos |-> p]

\* a ReadString that leaves the delimiter in the buffer
ReadStringNoDelim(delim, p) ==
    LET hits == {j \in (p + 1)..Len(data) : data[j] = delim}
    IN  IF hits = {} THEN [s |-> SubSeq(data, p + 1, Len(data)), err |-> ErrEOF, pos |-> Len(data)]
        ELSE LET j == CHOOSE x \in hits : \A y \in hits : x <= y
             IN  [s |-> SubSeq(data, p + 1, j), err |-> ErrNil, pos |-> j - 1]

\* bufio.Reader.ReadString(delim): the bytes up to and including delim; at
\* end of stream, everything that was left and io.EOF
ReadString(delim, p) ==
    LET hits == {j \in (p + 1)..Len(data) : data[j] = delim}
    IN  IF hits = {} THEN [s |-> SubSeq(data, p + 1, Len(data)), err |-> ErrEOF, pos |-> Len(data)]
        ELSE LET j == CHOOSE x \in hits : \A y \in hits : x <= y
             IN  [s |-> SubSeq(data, p + 1, j), err |-> ErrNil, pos |-> j]

\* make([]byte, length): the runtime panics on a negative length and on one
\* beyond what it can allocate
MakesliceOk(length) == ~length.neg /\ ~MagLess(MagMaxAlloc, length.mag)

\* io.ReadFull(r.r, contents) for len(contents) = length: all of them, or an
\* error after taking what was left
ReadFull(length, p) ==
    LET avail == Len(data) - p
    IN  IF Len(length.mag) <= 9 /\ MagNat(length.mag) <= avail
        THEN [s   |-> SubSeq(data, p + 1, p + MagNat(length.mag)),
              err |-> ErrNil, pos |-> p + MagNat(length.mag)]
        ELSE [s |-> <<>>, err |-> ErrEOF, pos |-> Len(data)]

-----------------------------------------------------------------------------
(* decode.go.  Each parsing function returns [val, err, pos]; val is Nil   *)
(* whenever err is not ErrNil.  A panic is carried as err = PanicMakeslice *)
(* and passed up unchanged by every caller.                                *)

Fail(e, p) == [val |-> Nil, err |-> e, pos |-> p]
Ok(v, p) == [val |-> v, err |-> ErrNil, pos |-> p]

decodeString(p) ==
    LET ls == ReadString(":", p)
    IN  IF ls.err # ErrNil THEN Fail(ErrStringEOF, ls.pos)
        ELSE LET length == ParseInt(SubSeq(ls.s, 1, Len(ls.s) - 1))
             IN  IF ~length.ok THEN Fail(ErrStringLength, ls.pos)
                 ELSE IF ~MakesliceOk(length.val) THEN Fail(PanicMakeslice, ls.pos)
                 ELSE LET c == ReadFull(length.val, ls.pos)
                      IN  IF c.err # ErrNil THEN Fail(ErrStringContents, c.pos)
                          ELSE Ok([str |-> c.s], c.pos)

decodeInt(p) ==
    LET b == ReadByte(p)
    IN  IF b.err # ErrNil \/ b.b # "i" THEN Fail(ErrIntStart, b.pos)
        ELSE LET is == ReadString("e", b.pos)
             IN  IF is.err # ErrNil THEN Fail(ErrIntNoEnd, is.pos)
                 ELSE LET v == ParseInt(SubSeq(is.s, 1, Len(is.s) - 1))
                      IN  IF ~v.ok THEN Fail(ErrIntValue, is.pos)
                          ELSE Ok(v.val, is.pos)

RECURSIVE decode(_), decodeListLoop(_, _), decodeDictLoop(_, _)

\* the for loop of decodeList, entered with the cursor p and the list so far
decodeListLoop(p, list) ==
    LET b == ReadByte(p)
    IN  IF b.err # ErrNil THEN Fail(b.err, b.pos)
        ELSE IF b.b = "e" THEN Ok([list |-> list], b.pos)
        ELSE LET item == decode(p)
             IN  IF item.err # ErrNil THEN Fail(item.err, item.pos)
                 ELSE decodeListLoop(item.pos, Append(list, item.val))

decodeList(p) ==
    LET b == ReadByte(p)
    IN  IF b.err # ErrNil \/ b.b # "l" THEN Fail(ErrListStart, b.pos)
        ELSE decodeListLoop(b.pos, <<>>)

\* dict[key] = value
MapSet(m, key, value) ==
    [k \in (DOMAIN m) \cup {key} |-> IF k = key THEN value ELSE m[k]]

EmptyMap == [k \in {} |-> Nil]

\* the for loop of decodeDict, entered with the cursor p and the map so far
decodeDictLoop(p, dict) ==
    LET b == ReadByte(p)
    IN  IF b.err # ErrNil THEN Fail(b.err, b.pos)
        ELSE IF b.b = "e" THEN Ok([dict |-> dict], b.pos)
        ELSE LET key == decodeString(p)
             IN  IF key.err = PanicMakeslice THEN Fail(PanicMakeslice, key.pos)
                 ELSE IF key.err # ErrNil THEN Fail(ErrDictKey, key.pos)
                 ELSE LET value == decode(key.pos)
                      IN  IF value.err # ErrNil THEN Fail(value.err, value.pos)
                          ELSE decodeDictLoop(value.pos, MapSet(dict, key.val.str, value.val))

decodeDict(p) ==
    LET b == ReadByte(p)
    IN  IF b.err # ErrNil \/ b.b # "d" THEN Fail(ErrDictStart, b.pos)
        ELSE decodeDictLoop(b.pos, EmptyMap)

\* reader.decode: peek the lead byte, put it back, dispatch on it
decode(p) ==
    LET b == ReadByte(p)
    IN  IF b.err # ErrNil THEN Fail(b.err, b.pos)
        ELSE IF b.b \in Digits THEN decodeString(p)
        ELSE IF b.b = "i" THEN decodeInt(p)
        ELSE IF b.b = "l" THEN decodeList(p)
        ELSE IF b.b = "d" THEN decodeDict(p)
        ELSE Fail(ErrInvalidType, p)

-----------------------------------------------------------------------------
(* Destination types (reflect.Type) and their zero values.                 *)

TString == [k |-> "string"]
TBool == [k |-> "bool"]
TInterface == [k |-> "interface"]
TInt(w) == [k |-> "int", w |-> w]
TUint(w) == [k |-> "uint", w |-> w]
TSlice(e) == [k |-> "slice", elem |-> e]
TMap(e) == [k |-> "map", elem |-> e]
TPtr(e) == [k |-> "ptr", elem |-> e]
TStruct(fs) == [k |-> "struct", fields |-> fs]

\* a struct field: its name, its bencode tag (<<>> when it has none), whether
\* it is exported (PkgPath = "") and its type
Field(name, tag, exported, type) ==
    [name |-> name, tag |-> tag, exported |-> exported, type |-> type]

RECURSIVE Zero(_)
Zero(T) ==
    CASE T.k = "string" -> [str |-> <<>>]
      [] T.k \in {"int", "uint"} -> FromInt(0)
      [] T.k = "bool" -> [bool |-> FALSE]
      [] T.k = "struct" -> [fields |-> [i \in 1..Len(T.fields) |-> Zero(T.fields[i].type)]]
      [] OTHER -> Nil

IsStr(x) == "str" \in DOMAIN x
IsInt(x) == "mag" \in DOMAIN x
IsList(x) == "list" \in DOMAIN x
IsDict(x) == "dict" \in DOMAIN x

\* reflect.TypeOf(rawData): string, int64, []any or map[string]any
TypeOf(x) ==
    CASE IsStr(x) -> TString
      [] IsInt(x) -> TInt(64)
      [] IsList(x) -> TSlice(TInterface)
      [] IsDict(x) -> TMap(TInterface)

-----------------------------------------------------------------------------
(* unmarshal.go.  unmarshal(rawData, T, v, ord) returns [err, val]: the    *)
(* error returned and the value the destination v of type T holds when the *)
(* call returns (also when it returns an error: nothing is rolled back).   *)
(* ord lists the keys of rawData in the order in which the range loops     *)
(* over its maps visit them, which the language leaves open.               *)

\* an overflow test that lets every value through (the value would be truncated)
OverflowIntNever(x, w) == FALSE

\* reflect.Value.OverflowInt: x differs from its low w bits, sign-extended
OverflowInt(x, w) ==
    IF w = 64 THEN FALSE
    ELSE LET m     == Pow2(w)
             low0  == MagMod(x.mag, m, 0)
             low   == IF x.neg THEN (m - low0) % m ELSE low0
             trunc == IF low >= m \div 2 THEN low - m ELSE low
         IN  x # FromInt(trunc)

\* reflect.Value.OverflowUint: x differs from its low w bits
OverflowUint(x, w) ==
    IF w = 64 THEN FALSE
    ELSE x # FromInt(MagMod(x.mag, Pow2(w), 0))

\* a loop that does not skip unexported fields
UnexportedNever(field) == FALSE

\* field.PkgPath != ""
Unexported(field) == ~field.exported

\* the bencode tag, else the field's name
FieldKey(field) == IF field.tag = <<>> THEN field.name ELSE field.tag

\* an assignability test that accepts every type
AssignableAlways(V, T) == TRUE

\* reflect.Type.AssignableTo between two non-interface, unnamed-or-predeclared
\* types: they are the same type
AssignableTo(V, T) == V = T

\* a map case that always starts from a newly made map
MapTargetFresh(v) == [dict |-> [k \in {} |-> Nil]]

\* if v.IsNil() { v.Set(reflect.MakeMap(v.Type())) }
MapTarget(v) == IF v = Nil THEN [dict |-> EmptyMap] ELSE v

\* the keys of rawMap in the order the range loop visits them
KeyOrder(rawMap, ord) == SelectSeq(ord, LAMBDA k : k \in DOMAIN rawMap)

RECURSIVE unmarshal(_, _, _, _), unmarshalSlice(_, _, _, _, _),
          unmarshalStruct(_, _, _, _, _), unmarshalMap(_, _, _, _, _)

\* case reflect.Slice: the loop over rawSlice from index i, slice the
\* elements filled so far; val is the filled slice
unmarshalSlice(rawSlice, T, i, slice, ord) ==
    IF i > Len(rawSlice) THEN [err |-> ErrNil, val |-> slice]
    ELSE LET r == unmarshal(rawSlice[i], T.elem, Zero(T.elem), ord)
         IN  IF r.err # ErrNil THEN [err |-> r.err, val |-> slice]
             ELSE unmarshalSlice(rawSlice, T, i + 1, Append(slice, r.val), ord)

\* case reflect.Struct: the loop over the fields from index i
unmarshalStruct(rawMap, T, v, i, ord) ==
    IF i > Len(T.fields) THEN [err |-> ErrNil, val |-> v]
    ELSE LET field == T.fields[i]
         IN  IF Unexported(field) \/ FieldKey(field) \notin DOMAIN rawMap
             THEN unmarshalStruct(rawMap, T, v, i + 1, ord)
             ELSE LET r  == unmarshal(rawMap[FieldKey(field)], field.type, v.fields[i], ord)
                      v2 == [fields |-> [v.fields EXCEPT ![i] = r.val]]
                  IN  IF r.err # ErrNil THEN [err |-> r.err, val |-> v2]
                      ELSE unmarshalStruct(rawMap, T, v2, i + 1, ord)

\* case reflect.Map: the range loop over the keys still to visit
unmarshalMap(rawMap, T, v, keys, ord) ==
    IF keys = <<>> THEN [err |-> ErrNil, val |-> v]
    ELSE LET r == unmarshal(rawMap[Head(keys)], T.elem, Zero(T.elem), ord)
         IN  IF r.err # ErrNil THEN [err |-> r.err, val |-> v]
             ELSE unmarshalMap(rawMap, T,
                               [dict |-> MapSet(v.dict, Head(keys), r.val)],
                               Tail(keys), ord)

\* the switch on v.Kind(), v already dereferenced
unmarshalKind(rawData, T, v, ord) ==
    CASE T.k = "string" ->
           IF ~IsStr(rawData) THEN [err |-> ErrMismatch, val |-> v]
           ELSE [err |-> ErrNil, val |-> rawData]
      [] T.k = "int" ->
           IF ~IsInt(rawData) THEN [err |-> ErrMismatch, val |-> v]
           ELSE IF OverflowInt(rawData, T.w) THEN [err |-> ErrOverflow, val |-> v]
           ELSE [err |-> ErrNil, val |-> rawData]
      [] T.k = "uint" ->
           IF ~IsInt(rawData) THEN [err |-> ErrMismatch, val |-> v]
           ELSE IF rawData.neg THEN [err |-> ErrNegative, val |-> v]
           ELSE IF OverflowUint(rawData, T.w) THEN [err |-> ErrOverflow, val |-> v]
           ELSE [err |-> ErrNil, val |-> rawData]
      [] T.k = "slice" ->
           IF ~IsList(rawData) THEN [err |-> ErrMismatch, val |-> v]
           ELSE LET r == unmarshalSlice(rawData.list, T, 1, <<>>, ord)
                IN  IF r.err # ErrNil THEN [err |-> r.err, val |-> v]
                    ELSE [err |-> ErrNil, val |-> [list |-> r.val]]
      [] T.k = "struct" ->
           IF ~IsDict(rawData) THEN [err |-> ErrMismatch, val |-> v]
           ELSE unmarshalStruct(rawData.dict, T, v, 1, ord)
      [] T.k = "map" ->
           IF ~IsDict(rawData) THEN [err |-> ErrMismatch, val |-> v]
           ELSE unmarshalMap(rawData.dict, T, MapTarget(v),
                             KeyOrder(rawData.dict, ord), ord)
      [] T.k = "interface" ->
           IF v # Nil /\ ~AssignableTo(TypeOf(rawData), v.type)
           THEN [err |-> ErrMismatch, val |-> v]
           ELSE [err |-> ErrNil, val |-> [type |-> TypeOf(rawData), val |-> rawData]]
      [] OTHER -> [err |-> ErrUnsupported, val |-> v]

\* unmarshal: one level of pointer is allocated when nil and dereferenced,
\* then the switch runs on what it points to
unmarshal(rawData, T, v, ord) ==
    IF T.k = "ptr"
    THEN LET target == IF v = Nil THEN Zero(T.elem) ELSE v.ptr
             r == IF rawData = Nil THEN [err |-> ErrNil, val |-> target]
                  ELSE unmarshalKind(rawData, T.elem, target, ord)
         IN  [err |-> r.err, val |-> [ptr |-> r.val]]
    ELSE IF rawData = Nil THEN [err |-> ErrNil, val |-> v]
    ELSE unmarshalKind(rawData, T, v, ord)

\* every key of every map in a decoded value
RECURSIVE KeysIn(_)
KeysIn(x) ==
    CASE IsList(x) -> UNION {KeysIn(x.list[i]) : i \in 1..Len(x.list)}
      [] IsDict(x) -> (DOMAIN x.dict) \cup UNION {KeysIn(x.dict[k]) : k \in DOMAIN x.dict}
      [] OTHER -> {}

\* the orders in which a range loop may visit the keys in S
Perms(S) ==
    {f \in [1..Cardinality(S) -> S] : \A i, j \in 1..Cardinality(S) : f[i] = f[j] => i = j}

-----------------------------------------------------------------------------
(* The wire format, used to build input streams from values.               *)

\* the bytes that occur in dictionary keys, in ascending byte order
ByteOrder == <<"\t", "+", "-", "0", "1", "2", "3", "4", "5", "6", "7", "8", "9",
               ":", "C", "a", "b", "d", "e", "f", "i", "l", "o", "p", "s", "x", "z">>

ByteRank(b) == CHOOSE i \in 1..Len(ByteOrder) : ByteOrder[i] = b

RECURSIVE BytesLess(_, _)
BytesLess(a, b) ==
    IF b = <<>> THEN FALSE
    ELSE IF a = <<>> THEN TRUE
    ELSE IF a[1] # b[1] THEN ByteRank(a[1]) < ByteRank(b[1])
    ELSE BytesLess(Tail(a), Tail(b))

RECURSIVE SortedKeys(_)
SortedKeys(S) ==
    IF S = {} THEN <<>>
    ELSE LET least == CHOOSE k \in S : \A o \in S \ {k} : BytesLess(k, o)
         IN  <<least>> \o SortedKeys(S \ {least})

RECURSIVE Encode(_), EncodeAll(_), EncodeEntries(_, _)
Encode(v) ==
    CASE IsStr(v) -> NatDigits(Len(v.str)) \o <<":">> \o v.str
      [] IsInt(v) -> <<"i">> \o (IF v.neg THEN <<"-">> ELSE <<>>) \o v.mag \o <<"e">>
      [] IsList(v) -> <<"l">> \o EncodeAll(v.list) \o <<"e">>
      [] IsDict(v) -> <<"d">> \o EncodeEntries(v.dict, SortedKeys(DOMAIN v.dict)) \o <<"e">>

EncodeAll(vs) ==
    IF vs = <<>> THEN <<>> ELSE Encode(Head(vs)) \o EncodeAll(Tail(vs))

EncodeEntries(m, keys) ==
    IF keys = <<>> THEN <<>>
    ELSE Encode([str |-> Head(keys)]) \o Encode(m[Head(keys)]) \o EncodeEntries(m, Tail(keys))

-----------------------------------------------------------------------------
(* Bounds and inputs.                                                      *)

MaxCalls == 3     \* Decode calls made on one Decoder
MaxValues == 2    \* values concatenated in one well-formed stream
MaxBody == 2      \* bytes between the 'i' and the 'e' of a generated integer
MaxStrLen == 2    \* declared length, and bytes present, of a generated string

VStr(bytes) == [str |-> bytes]
VInt(n) == FromInt(n)
VList(items) == [list |-> items]
VDict(pairs) ==
    [dict |-> [k \in {pairs[i][1] : i \in 1..Len(pairs)} |->
                  pairs[CHOOSE i \in 1..Len(pairs) : pairs[i][1] = k][2]]]

MaxInt64 == [neg |-> FALSE,
             mag |-> <<"9","2","2","3","3","7","2","0","3","6","8","5","4","7","7","5","8","0","7">>]
MinInt64 == [neg |-> TRUE, mag |-> Mag2p63]

\* the sequences over the elements of the sequence xs, of length at most n
SeqsUpTo(xs, n) ==
    UNION {{[i \in 1..m |-> xs[f[i]]] : f \in [1..m -> 1..Len(xs)]} : m \in 0..n}

\* values whose encodings are concatenated into multi-value streams
StreamVals ==
    << VInt(1),
       VInt(300),
       VStr(<<"e", ":", "\t">>),
       VDict(<< <<<<"a">>, VStr(<<"x">>)>> >>),
       VDict(<< <<<<"b">>, VInt(7)>>, <<<<"p">>, VInt(5)>> >>) >>

ValueSeqs == SeqsUpTo(StreamVals, MaxValues)

\* values decoded alone, to be coerced into every destination type
CoerceVals ==
    { VInt(-32769), VInt(-32768), VInt(-129), VInt(-128), VInt(-1), VInt(0), VInt(127),
      VInt(128), VInt(255), VInt(256), VInt(32767), VInt(32768), VInt(65535), VInt(65536),
      MaxInt64, MinInt64,
      VStr(<<"s", "p">>),
      VList(<<>>), VList(<<VInt(1), VInt(2), VInt(3)>>), VList(<<VInt(1), VInt(300)>>),
      VList(<<VList(<<>>), VDict(<<>>)>>),
      VDict(<<>>),
      VDict(<< <<<<"a">>, VStr(<<"x">>)>>, <<<<"b">>, VStr(<<"y">>)>> >>),
      VDict(<< <<<<"a">>, VStr(<<"x">>)>>, <<<<"C">>, VInt(7)>>, <<<<"z">>, VStr(<<"u">>)>> >>),
      VDict(<< <<<<"a">>, VStr(<<"x">>)>>, <<<<"C">>, VInt(256)>> >>),
      VDict(<< <<<<"a">>, VInt(1)>>, <<<<"C">>, VInt(7)>> >>),
      VDict(<< <<<<"b">>, VInt(5)>>, <<<<"p">>, VInt(5)>> >>),
      VDict(<< <<<<"p">>, VInt(128)>> >>),
      VDict(<< <<<<"a">>, VInt(1)>>, <<<<"b">>, VInt(300)>> >>),
      VDict(<< <<<<"a">>, VDict(<< <<<<"b">>, VInt(1)>> >>)>> >>) }

CoerceStreams ==
    {EncodeAll(vs) : vs \in ValueSeqs} \cup {Encode(v) : v \in CoerceVals}

\* i<body>e for every body over a few bytes, with and without the 'e', then
\* the numerals around the ends of the 64-bit range
BodyBytes == <<"0", "7", "-", "+", "a">>

IntStreams ==
    {<<"i">> \o b \o <<"e">> : b \in SeqsUpTo(BodyBytes, MaxBody)}
    \cup {<<"i">> \o b : b \in SeqsUpTo(BodyBytes, MaxBody)}
    \cup {<<"i">> \o b \o <<"e">> :
            b \in { MaxInt64.mag, Mag2p63, <<"-">> \o Mag2p63,
                    <<"-">> \o SubSeq(Mag2p63, 1, 18) \o <<"9">>,
                    <<"+">> \o MaxInt64.mag, <<"0", "0">> \o MaxInt64.mag,
                    Mag2p63 \o <<"0">>, <<"4", "2", "a", "2">> }}

\* <n>:<bytes> for every declared length n and every content over a few bytes
\* (too short, exact, and with bytes following), then the lengths the
\* runtime cannot allocate
ContentBytes == <<"\t", "e", "3">>

StringStreams ==
    {NatDigits(n) \o <<":">> \o c :
        n \in 0..MaxStrLen, c \in SeqsUpTo(ContentBytes, MaxStrLen + 1)}
    \cup { <<"0", "2", ":", "\t", "\t">>, <<"5", ":", "a", "b", "d">>, <<"5">>, <<"1", "a", ":", "x">>,
           <<"4","6","1","1","6","8","6","0","1","8","4","2","7","3","8","7","9","0","4",":","a">>,
           MagMaxAlloc \o <<":">> }

\* unterminated and malformed containers, and keys that are not strings
ContainerStreams ==
    { <<"l">>, <<"d">>, <<"l", "l", "e">>, <<"l", "d">>, <<"l", "i", "1", "e">>,
      <<"l", "1", ":", "a">>, <<"l", "i", "1">>, <<"l", "2", ":", "a">>,
      <<"d", "1", ":", "a">>, <<"d", "1", ":", "a", "i", "1", "e">>,
      <<"d", "1", ":", "a", "l">>, <<"d", "1", ":", "a", "x">>, <<"d", "1", ":">>,
      <<"x">>, <<"e">>, <<"l", "e", "e">>, <<"l", "x", "e">>,
      <<"d", "i", "1", "e", "3", ":", "f", "o", "o", "e", "e">>,
      <<"d", "i", "1", "e", "e">>,
      <<"d", "l", "e", "1", ":", "a", "e">>,
      <<"d", "d", "e", "e">>,
      <<"d", "+", "1", ":", "a", "i", "1", "e", "e">>,
      <<"d", "-", "1", ":", "a", "i", "1", "e", "e">>,
      <<"d", "-", "0", ":", "i", "1", "e", "e">>,
      <<"d", "-", ":", "e">>, <<"d", "x", "e">>, <<"d", ":", "e">>,
      <<"d", "1", ":", "a", "i", "1", "e", "1", ":", "a", "i", "2", "e", "e">>,
      <<"d", "1", ":", "a", "e">> }

DecodeStreams == IntStreams \cup StringStreams \cup ContainerStreams

\* struct { A string `bencode:"a"`; b string `bencode:"b"`; C uint8; P *int8 `bencode:"p"` }
StructT ==
    TStruct(<< Field(<<"A">>, <<"a">>, TRUE, TString),
               Field(<<"b">>, <<"b">>, FALSE, TString),
               Field(<<"C">>, <<>>, TRUE, TUint(8)),
               Field(<<"P">>, <<"p">>, TRUE, TPtr(TInt(8))) >>)

\* the destination variables a caller declares: its type and initial value
ZeroVar(T) == [type |-> T, val |-> Zero(T)]

Dests ==
    {ZeroVar(T) : T \in { TString, TInt(8), TInt(16), TInt(64), TUint(8), TUint(16),
                          TUint(64), TInterface, TSlice(TInt(8)), TSlice(TInterface),
                          TSlice(TPtr(TInt(8))), StructT, TMap(TInt(8)),
                          TMap(TInterface), TMap(TPtr(TInt(8))), TPtr(TInt(8)), TBool }}
    \cup {[type |-> TInterface, val |-> [type |-> TPtr(TString), val |-> [ptr |-> VStr(<<>>)]]]}

-----------------------------------------------------------------------------
(* The state machine.                                                      *)

\* NewDecoder(r) over a stream, and the caller's destination variable
Init ==
    /\ \/ data \in CoerceStreams /\ dst \in Dests
       \/ data \in DecodeStreams /\ dst = ZeroVar(TInterface)
    /\ pos = 0
    /\ err = ErrNone
    /\ raw = Nil
    /\ from = 0
    /\ pre = dst.val
    /\ ncalls = 0

\* d.Decode(&x): x is the destination variable as the last call left it, or,
\* when fresh, a newly declared variable of the same type
Decode(fresh) ==
    /\ err # PanicMakeslice
    /\ ncalls < MaxCalls
    /\ LET v == IF fresh THEN Zero(dst.type) ELSE dst.val
           r == decode(pos)
       IN  /\ from' = pos
           /\ pre' = v
           /\ pos' = r.pos
           /\ raw' = r.val
           /\ ncalls' = ncalls + 1
           /\ IF r.err # ErrNil
              THEN /\ err' = r.err
                   /\ dst' = [dst EXCEPT !.val = v]
              ELSE \E ord \in Perms(KeysIn(r.val)) :
                      LET u == unmarshal(r.val, TPtr(dst.type), [ptr |-> v], ord)
                      IN  /\ err' = u.err
                          /\ dst' = [dst EXCEPT !.val = u.val.ptr]
    /\ UNCHANGED data

\* d.Decode(v) with v nil or not a pointer: refused before any byte is read
DecodeInvalid ==
    /\ err # PanicMakeslice
    /\ ncalls < MaxCalls
    /\ err' = ErrInvalidUnmarshal
    /\ raw' = Nil
    /\ from' = pos
    /\ pre' = dst.val
    /\ UNCHANGED <<data, pos, dst, ncalls>>

Next ==
    \/ \E fresh \in BOOLEAN : Decode(fresh)
    \/ DecodeInvalid

Spec == Init /\ [][Next]_vars

-----------------------------------------------------------------------------
(* Properties.                                                             *)

\* the last Decode call got as far as d.r.decode()
Called == ncalls >= 1 /\ err # ErrInvalidUnmarshal

\* the errors of the coercion stage
CoercionErrors == {ErrMismatch, ErrOverflow, ErrNegative, ErrUnsupported}

\* the value sequences whose encodings are among the input streams
EncodedSeqs == ValueSeqs \cup {<<v>> : v \in CoerceVals}

\* C1: on a stream that is the concatenation of the encodings of v1..vk, the
\* n-th Decode call (n <= k) starts right after the encoding of v(n-1), decodes
\* vn, stops right after the encoding of vn and hands vn to an empty dynamic
\* destination; every later call returns io.EOF and leaves cursor and
\* destination alone.
C1_SequentialDecode ==
    \A vs \in EncodedSeqs :
        (data = EncodeAll(vs) /\ Called) =>
            IF ncalls <= Len(vs)
            THEN /\ from = Len(EncodeAll(SubSeq(vs, 1, ncalls - 1)))
                 /\ pos = Len(EncodeAll(SubSeq(vs, 1, ncalls)))
                 /\ raw = vs[ncalls]
                 /\ err \in {ErrNil} \cup CoercionErrors
                 /\ (dst.type = TInterface /\ pre = Nil) =>
                        /\ err = ErrNil
                        /\ dst.val = [type |-> TypeOf(vs[ncalls]), val |-> vs[ncalls]]
            ELSE /\ err = ErrEOF
                 /\ raw = Nil
                 /\ from = Len(data)
                 /\ pos = Len(data)
                 /\ dst.val = pre

\* two values were decoded in turn and the third call returned io.EOF
C1_Witness ==
    \E vs \in ValueSeqs :
        /\ Len(vs) = 2
        /\ vs[1] # vs[2]
        /\ data = EncodeAll(vs)
        /\ ncalls = 3
        /\ err = ErrEOF
        /\ pos = Len(data)

\* C2: Decode returns the bare io.EOF only when the stream was exhausted where
\* the call started and the call consumed no byte (so never from inside a
\* list or dictionary that lacks its closing 'e').
C2_EOFOnlyAtBoundary ==
    (Called /\ err = ErrEOF) => (from = Len(data) /\ pos = from)

\* C3: when the first key position of a dictionary holds a byte that is
\* neither 'e' nor a digit, Decode returns the dictionary-key error and
\* yields no value.
C3_NonDigitKeyRejected ==
    ( /\ Called
      /\ from + 2 <= Len(data)
      /\ data[from + 1] = "d"
      /\ data[from + 2] \notin Digits \cup {"e"} )
    => (err = ErrDictKey /\ raw = Nil)

\* the body of an integer as the wire format has it: an optional '-', then
\* one or more decimal digits
IsNumeral(body) ==
    /\ body # <<>>
    /\ LET ds == IF body[1] = "-" THEN Tail(body) ELSE body
       IN  ds # <<>> /\ \A i \in 1..Len(ds) : ds[i] \in Digits

NumeralMag(body) == StripZeros(IF body[1] = "-" THEN Tail(body) ELSE body)

NumeralInRange(body) ==
    IF body[1] = "-" THEN ~MagLess(Mag2p63, NumeralMag(body))
    ELSE MagLess(NumeralMag(body), Mag2p63)

\* C4: decoding i<body>e yields the integer whose numeral is the body when the
\* body is such a numeral within the 64-bit signed range, and fails with a
\* malformed-integer error, yielding no value, on every other body and on a
\* missing 'e'.
C4_IntegerGrammar ==
    (Called /\ from < Len(data) /\ data[from + 1] = "i") =>
        LET ends == {j \in (from + 2)..Len(data) : data[j] = "e"}
            j    == CHOOSE x \in ends : \A y \in ends : x <= y
            body == SubSeq(data, from + 2, j - 1)
        IN  IF ends = {} THEN err = ErrIntNoEnd /\ raw = Nil
            ELSE IF IsNumeral(body) /\ NumeralInRange(body)
            THEN /\ raw = [neg |-> body[1] = "-" /\ NumeralMag(body) # <<"0">>,
                           mag |-> NumeralMag(body)]
                 /\ pos = j
            ELSE err = ErrIntValue /\ raw = Nil

\* C5: decoding <N>:<bytes> yields exactly the N bytes after the ':' and
\* leaves the cursor right after them; when fewer than N bytes follow the ':'
\* it fails with the string-contents error and yields no value.
C5_StringExact ==
    LET colons == {j \in (from + 1)..Len(data) : data[j] = ":"}
        c      == CHOOSE x \in colons : \A y \in colons : x <= y
        N      == StripZeros(SubSeq(data, from + 1, c - 1))
    IN  ( /\ Called
          /\ colons # {}
          /\ c > from + 1
          /\ \A i \in (from + 1)..(c - 1) : data[i] \in Digits )
        => IF Len(N) <= 9 /\ MagNat(N) <= Len(data) - c
           THEN /\ raw = [str |-> SubSeq(data, c + 1, c + MagNat(N))]
                /\ pos = c + MagNat(N)
           ELSE err = ErrStringContents /\ raw = Nil

\* order on sign-magnitude integers
IntLess(a, b) ==
    IF a.neg # b.neg THEN a.neg
    ELSE IF a.neg THEN MagLess(b.mag, a.mag)
    ELSE MagLess(a.mag, b.mag)

IntLeq(a, b) == a = b \/ IntLess(a, b)

\* the least and greatest values of the integer types of width w
MinSigned(w) == IF w = 64 THEN MinInt64 ELSE FromInt(0 - Pow2(w - 1))
MaxSigned(w) == IF w = 64 THEN MaxInt64 ELSE FromInt(Pow2(w - 1) - 1)
MaxUnsigned(w) ==
    IF w = 64
    THEN [neg |-> FALSE,
          mag |-> <<"1","8","4","4","6","7","4","4","0","7","3","7","0","9","5","5","1","6","1","5">>]
    ELSE FromInt(Pow2(w) - 1)

\* C6: an integer v decoded into a signed destination of width w is stored
\* exactly when -2^(w-1) <= v <= 2^(w-1)-1 and is an overflow error otherwise;
\* into an unsigned destination it is a negative-value error when v < 0, an
\* overflow error when v > 2^w-1, and stored otherwise; on every error the
\* destination keeps the value it had.
C6_IntegerRange ==
    (Called /\ IsInt(raw) /\ dst.type.k \in {"int", "uint"}) =>
        LET w == dst.type.w
        IN  IF dst.type.k = "int"
            THEN IF IntLeq(MinSigned(w), raw) /\ IntLeq(raw, MaxSigned(w))
                 THEN err = ErrNil /\ dst.val = raw
                 ELSE err = ErrOverflow /\ dst.val = pre
            ELSE IF IntLess(raw, FromInt(0))
                 THEN err = ErrNegative /\ dst.val = pre
                 ELSE IF IntLess(MaxUnsigned(w), raw)
                 THEN err = ErrOverflow /\ dst.val = pre
                 ELSE err = ErrNil /\ dst.val = raw

\* an int8 that holds 1 from an earlier call is offered 300 and keeps 1
C6_Witness ==
    /\ dst.type = TInt(8)
    /\ pre = FromInt(1)
    /\ raw = FromInt(300)
    /\ err = ErrOverflow
    /\ dst.val = FromInt(1)

\* C7: a dictionary decoded into a struct: a field is bound when it is
\* exported and its key (tag, else name) is in the dictionary; when every
\* bound field's entry coerces the call succeeds and each bound field holds
\* its coerced entry; a field that is not bound (key absent, or unexported
\* even with a matching tag) is left as it was, so at its zero value in a
\* zero struct; keys that match no field do not matter.
C7_StructFields ==
    (Called /\ IsDict(raw) /\ dst.type.k = "struct") =>
        LET fs       == dst.type.fields
            key(i)   == IF fs[i].tag = <<>> THEN fs[i].name ELSE fs[i].tag
            bound(i) == fs[i].exported /\ key(i) \in DOMAIN raw.dict
            co(i)    == unmarshal(raw.dict[key(i)], fs[i].type, pre.fields[i], <<>>)
            idx      == 1..Len(fs)
        IN  /\ \A i \in idx : ~bound(i) => dst.val.fields[i] = pre.fields[i]
            /\ (pre = Zero(dst.type)) =>
                   \A i \in idx : ~bound(i) => dst.val.fields[i] = Zero(fs[i].type)
            /\ (\A i \in idx : bound(i) => co(i).err = ErrNil) =>
                   /\ err = ErrNil
                   /\ \A i \in idx : bound(i) => dst.val.fields[i] = co(i).val

\* {a: "x", C: 7, z: "u"} into a zero struct: A and C are filled, the
\* unexported b and the absent P stay zero, z is ignored
C7_Witness ==
    /\ dst.type = StructT
    /\ pre = Zero(StructT)
    /\ IsDict(raw)
    /\ DOMAIN raw.dict = {<<"a">>, <<"C">>, <<"z">>}
    /\ err = ErrNil
    /\ dst.val.fields = <<VStr(<<"x">>), VStr(<<>>), FromInt(7), Nil>>

\* the four natural shapes of a decoded value, and the shape a dynamic slot
\* holds
Shape(x) ==
    CASE IsStr(x) -> "string" [] IsInt(x) -> "integer"
      [] IsList(x) -> "sequence" [] IsDict(x) -> "mapping"

HeldShape(h) ==
    CASE h.type = TString -> "string"
      [] h.type = TInt(64) -> "integer"
      [] h.type = TSlice(TInterface) -> "sequence"
      [] h.type = TMap(TInterface) -> "mapping"
      [] OTHER -> "other"

\* C8: a dynamic slot that holds a value is never retyped: a decoded value of
\* another shape is a type-mismatch error and leaves the slot as it was, one
\* of the same shape replaces the held value; an empty slot takes any shape.
C8_NoRetype ==
    (Called /\ dst.type = TInterface) =>
        IF raw = Nil THEN dst.val = pre
        ELSE IF pre = Nil \/ HeldShape(pre) = Shape(raw)
        THEN err = ErrNil /\ dst.val = [type |-> TypeOf(raw), val |-> raw]
        ELSE err = ErrMismatch /\ dst.val = pre /\ dst.val.type = pre.type

\* a slot that holds an integer from an earlier call is offered a string
C8_Witness ==
    /\ dst.type = TInterface
    /\ pre # Nil
    /\ pre.type = TInt(64)
    /\ IsStr(raw)
    /\ err = ErrMismatch
    /\ dst.val = pre

\* the successful coercions of a dictionary into a map destination
MapCoerced ==
    Called /\ err = ErrNil /\ IsDict(raw) /\ dst.type.k = "map"

MapEntry(k) == unmarshal(raw.dict[k], dst.type.elem, Zero(dst.type.elem), <<>>).val

\* C9: after a dictionary is coerced into a map destination, the map's keys
\* are the dictionary's keys and each value is the coerced entry, whatever
\* the map held before.
C9_MapEqualsDict ==
    MapCoerced =>
        /\ DOMAIN dst.val.dict = DOMAIN raw.dict
        /\ \A k \in DOMAIN raw.dict : dst.val.dict[k] = MapEntry(k)

\* C9 as amended: a map is allocated only for a nil destination; the entries
\* of the dictionary are added to what the map held: its keys are the old
\* keys and the dictionary's keys, each dictionary key holds its coerced
\* entry and every other key holds what it held.
C9_MapMerges ==
    MapCoerced =>
        LET old == IF pre = Nil THEN EmptyMap ELSE pre.dict
        IN  /\ DOMAIN dst.val.dict = (DOMAIN old) \cup (DOMAIN raw.dict)
            /\ \A k \in DOMAIN raw.dict : dst.val.dict[k] = MapEntry(k)
            /\ \A k \in (DOMAIN old) \ (DOMAIN raw.dict) : dst.val.dict[k] = old[k]

\* a map that holds a key from an earlier call is given a dictionary without it
C9_Witness ==
    /\ MapCoerced
    /\ pre # Nil
    /\ (DOMAIN pre.dict) \ (DOMAIN raw.dict) # {}
    /\ DOMAIN raw.dict # {}

\* C10: a nil pointer to a supported type, as the variable Decode is given
\* the address of, is allocated and then filled exactly as its target type
\* would be.
C10_NilPointerAllocated ==
    (Called /\ raw # Nil /\ dst.type.k = "ptr" /\ pre = Nil) =>
        LET r == unmarshal(raw, dst.type.elem, Zero(dst.type.elem), <<>>)
        IN  /\ err = r.err
            /\ dst.val # Nil
            /\ dst.val.ptr = r.val

=============================================================================
